---- MODULE Spec2Model ----
(***************************************************************************)
(* Model of rustybolts (src/main.rs): the per-turn text codec of a robot   *)
(* arena client and its driving loop.                                      *)
(*                                                                         *)
(* A Rust &str / String is modelled as a sequence of one-character         *)
(* strings, so that split, parse and format work on characters.            *)
(***************************************************************************)
EXTENDS Integers, Sequences, FiniteSets, TLC

VARIABLES
    fn,        \* codec: the function under call ("Position::from_str", ...)
    arg,       \* codec: its argument (a string, a Board or a Game)
    ret,       \* codec: the Result of the from_str call
    out,       \* codec: the String produced by Display (to_string)
    phase,     \* codec: "start" -> "parsed" -> "shown", "idle" under Spec
    lines,     \* main: everything standard input will deliver, in order
    consumed,  \* main: how many items the for loop has taken from stdin
    stdout,    \* main: the lines printed so far
    game,      \* main: the loop's local `game` (the last decoded Game)
    pc,        \* main: "loop", "done" (Ok(())) or "failed" (Err), "idle"
    result     \* main: the value main returned

vars == <<fn, arg, ret, out, phase, lines, consumed, stdout, game, pc, result>>

codecVars == <<fn, arg, ret, out, phase>>
mainVars == <<lines, consumed, stdout, game, pc, result>>

----------------------------------------------------------------------------
(* Result<T> and Option<T> *)

Ok(v) == [ok |-> TRUE, val |-> v]
Err(e) == [ok |-> FALSE, err |-> e]

None == [some |-> FALSE]
Some(v) == [some |-> TRUE, val |-> v]

\* Iterator::next called for the n-th time on an iterator over `items`
Nth(items, n) == IF n <= Len(items) THEN Some(items[n]) ELSE None

----------------------------------------------------------------------------
(* str::split, [String]::join *)

\* s.split(d): the substrings between occurrences of d; never empty
\* ("".split(d) yields one empty string)
RECURSIVE Split(_, _)
Split(s, d) ==
    IF \A i \in 1..Len(s) : s[i] # d
    THEN <<s>>
    ELSE LET i == CHOOSE k \in 1..Len(s) :
                      s[k] = d /\ \A j \in 1..(k - 1) : s[j] # d
         IN  <<SubSeq(s, 1, i - 1)>> \o Split(SubSeq(s, i + 1, Len(s)), d)

\* strs.join(sep)
RECURSIVE Join(_, _)
Join(strs, sep) ==
    IF strs = <<>> THEN <<>>
    ELSE IF Len(strs) = 1 THEN strs[1]
    ELSE strs[1] \o sep \o Join(Tail(strs), sep)

----------------------------------------------------------------------------
(* Unsigned integer parsing (str::parse::<u8 | u32 | usize>) and Display *)

DigitChars == <<"0", "1", "2", "3", "4", "5", "6", "7", "8", "9">>

IsDigit(c) == \E d \in 1..Len(DigitChars) : DigitChars[d] = c

DigitVal(c) == (CHOOSE d \in 1..Len(DigitChars) : DigitChars[d] = c) - 1

\* The decimal digits of T::MAX for the three target types.  The maxima of
\* u32 and usize are kept as digit strings, and the overflow test compares
\* digit strings, so that no number wider than 32 bits is ever formed.
U8MaxDigits == <<2, 5, 5>>
U32MaxDigits == <<4, 2, 9, 4, 9, 6, 7, 2, 9, 5>>
UsizeMaxDigits == <<1, 8, 4, 4, 6, 7, 4, 4, 0, 7, 3, 7, 0, 9, 5, 5, 1, 6, 1, 5>>

\* digit values of a digit string, leading zeros dropped
RECURSIVE Significant(_)
Significant(ds) ==
    IF ds = <<>> THEN <<>>
    ELSE IF ds[1] = "0" THEN Significant(Tail(ds))
    ELSE [i \in 1..Len(ds) |-> DigitVal(ds[i])]

\* the number written by the digit string ds exceeds the one written by max
Exceeds(ds, max) ==
    LET sig == Significant(ds)
    IN  \/ Len(sig) > Len(max)
        \/ /\ Len(sig) = Len(max)
           /\ \E i \in 1..Len(sig) :
                 /\ sig[i] > max[i]
                 /\ \A j \in 1..(i - 1) : sig[j] = max[j]

RECURSIVE DigitsValue(_)
DigitsValue(ds) ==
    IF ds = <<>> THEN 0
    ELSE 10 * DigitsValue(SubSeq(ds, 1, Len(ds) - 1)) + DigitVal(ds[Len(ds)])

\* the index of the first character of ds that is no digit, Len(ds) + 1
\* when all are digits
FirstNonDigit(ds) ==
    IF \A i \in 1..Len(ds) : IsDigit(ds[i]) THEN Len(ds) + 1
    ELSE CHOOSE i \in 1..Len(ds) :
             ~IsDigit(ds[i]) /\ \A j \in 1..(i - 1) : IsDigit(ds[j])

\* the digit loop of from_str_radix: the first non-digit gives InvalidDigit
\* unless the digits before it already overflow, which gives PosOverflow
ParseDigits(ds, stop, max) ==
    IF \E i \in 1..(stop - 1) : Exceeds(SubSeq(ds, 1, i), max)
    THEN Err([kind |-> "ParseIntError", detail |-> "PosOverflow"])
    ELSE IF stop <= Len(ds)
    THEN Err([kind |-> "ParseIntError", detail |-> "InvalidDigit"])
    ELSE Ok(DigitsValue(ds))

\* core::num from_str_radix(s, 10) for an unsigned type whose MAX is `max`:
\* empty -> Empty; a lone sign -> InvalidDigit; one leading '+' is skipped
\* ('-' is not, so it is an invalid digit); then the digit loop
ParseUnsigned(s, max) ==
    IF s = <<>> THEN Err([kind |-> "ParseIntError", detail |-> "Empty"])
    ELSE IF Len(s) = 1 /\ s[1] \in {"+", "-"}
    THEN Err([kind |-> "ParseIntError", detail |-> "InvalidDigit"])
    ELSE IF s[1] = "+" THEN ParseDigits(Tail(s), FirstNonDigit(Tail(s)), max)
    ELSE ParseDigits(s, FirstNonDigit(s), max)

\* Display for an unsigned integer: decimal, no sign, no leading zeros
RECURSIVE UintToString(_)
UintToString(n) ==
    IF n < 10 THEN <<DigitChars[n + 1]>>
    ELSE UintToString(n \div 10) \o <<DigitChars[(n % 10) + 1]>>

----------------------------------------------------------------------------
(* Decoding: impl FromStr for Position, Bot, Board, Game *)

\* err!(...): an error holding the formatted message; `kind` is the message's
\* fixed text and `text` the interpolated argument
Error(kind) == [kind |-> kind]
ErrorWith(kind, text) == [kind |-> kind, text |-> text]

NextParsed_MissingAsEmpty(splitter, n, max, missing) ==
    ParseUnsigned(IF Nth(splitter, n).some THEN splitter[n] ELSE <<>>, max)

NextParsed(splitter, n, max, missing) ==
    IF Nth(splitter, n).some
    THEN ParseUnsigned(splitter[n], max)
    ELSE Err(Error(missing))

\* match (x.parse::<usize>(), y.parse::<usize>())
PositionFromPair_Swapped(x, y, px, py) ==
    IF px.ok /\ py.ok
    THEN Ok([x |-> py.val, y |-> px.val])
    ELSE Err(ErrorWith("Couldn't parse as usize", <<x, y>>))

PositionFromPair(x, y, px, py) ==
    IF px.ok /\ py.ok
    THEN Ok([x |-> px.val, y |-> py.val])
    ELSE Err(ErrorWith("Couldn't parse as usize", <<x, y>>))

\* the body of Position::from_str after `let mut splitter = s.split(':')`:
\* only the first two items of the splitter are ever taken
PositionFromSplit(splitter) ==
    IF ~(Nth(splitter, 1).some /\ Nth(splitter, 2).some)
    THEN Err(Error("Missing a position"))
    ELSE PositionFromPair(splitter[1], splitter[2],
                          ParseUnsigned(splitter[1], UsizeMaxDigits),
                          ParseUnsigned(splitter[2], UsizeMaxDigits))

\* "13:12".parse::<Position>()
PositionFromStr(s) == PositionFromSplit(Split(s, ":"))

\* match splitter.next() { Some("F") => Friendly, Some("E") => Enemy, _ => err }
TeamFromStr_AllFriendly(first) ==
    IF first.some /\ first.val \in {<<"F">>, <<"E">>} THEN Ok("Friendly")
    ELSE Err(Error("Couldn't parse team"))

TeamFromStr(first) ==
    IF first.some /\ first.val = <<"F">> THEN Ok("Friendly")
    ELSE IF first.some /\ first.val = <<"E">> THEN Ok("Enemy")
    ELSE Err(Error("Couldn't parse team"))

\* match splitter.next().map(|s| s.parse::<Position>())
NextPosition(splitter, n) ==
    IF Nth(splitter, n).some
    THEN PositionFromStr(splitter[n])
    ELSE Err(Error("No position"))

\* Ok(Bot { team, position, health, action: None }), unless `r?` on the
\* parsed health returns its error
BotAfterHealth(team, position, health) ==
    IF ~health.ok THEN health
    ELSE Ok([team |-> team, position |-> position, health |-> health.val,
             action |-> None])

\* `r?` on the parsed position, then the health
BotAfterPosition(splitter, team, position) ==
    IF ~position.ok THEN position
    ELSE BotAfterHealth(team, position.val,
                        NextParsed(splitter, 3, U8MaxDigits, "No health"))

\* the team match returns its error, or the position is read
BotAfterTeam(splitter, team) ==
    IF ~team.ok THEN team
    ELSE BotAfterPosition(splitter, team.val, NextPosition(splitter, 2))

\* the body of Bot::from_str after `let mut splitter = s.split('-')`:
\* only the first three items of the splitter are ever taken
BotFromSplit(splitter) == BotAfterTeam(splitter, TeamFromStr(Nth(splitter, 1)))

\* "F-13:12-20".parse::<Bot>()
BotFromStr(s) == BotFromSplit(Split(s, "-"))

\* collect::<Result<Vec<_>>>(): the values in order, or the first error
Collect(results) ==
    IF \A i \in 1..Len(results) : results[i].ok
    THEN Ok([i \in 1..Len(results) |-> results[i].val])
    ELSE results[CHOOSE i \in 1..Len(results) :
                     ~results[i].ok /\ \A j \in 1..(i - 1) : results[j].ok]

\* map_state.split(',').map(|s| s.parse::<Bot>())
ParsedBots(tokens) == [i \in 1..Len(tokens) |-> BotFromStr(tokens[i])]

\* "E-9:5-100,F-9:12-90".parse::<Board>()
BoardFromStr(map_state) == Collect(ParsedBots(Split(map_state, ",")))

\* Ok(Game { board, user_data, turn, player_num }), unless
\* `map_state.parse()?` returns the board's error
GameAfterBoard(user_data, turn, player_num, board) ==
    IF ~board.ok THEN board
    ELSE Ok([board |-> board.val, user_data |-> user_data, turn |-> turn,
             player_num |-> player_num])

\* `r?` on the parsed player number, then the board
GameAfterPlayerNum(map_state, user_data, turn, player_num) ==
    IF ~player_num.ok THEN player_num
    ELSE GameAfterBoard(user_data, turn, player_num.val, BoardFromStr(map_state))

\* `r?` on the parsed denominator, then the player number
GameAfterDenom(gd_splitter, map_state, user_data, num, denom) ==
    IF ~denom.ok THEN denom
    ELSE GameAfterPlayerNum(map_state, user_data, <<num, denom.val>>,
             NextParsed(gd_splitter, 3, U8MaxDigits, "No player num"))

\* `r?` on the parsed numerator, then the denominator
GameAfterNum(gd_splitter, map_state, user_data, num) ==
    IF ~num.ok THEN num
    ELSE GameAfterDenom(gd_splitter, map_state, user_data, num.val,
             NextParsed(gd_splitter, 2, U32MaxDigits, "No denominator"))

\* Game::from_str from `let mut gd_splitter = game_data.split(',')` on
GameFromSegments(gd_splitter, map_state, user_data) ==
    GameAfterNum(gd_splitter, map_state, user_data,
                 NextParsed(gd_splitter, 1, U32MaxDigits, "No numerator"))

\* match (splitter.next(), splitter.next(), splitter.next()): only the
\* first three items of the splitter are ever taken
GameFromSplit_RestIsUserData(s, splitter) ==
    IF ~(Nth(splitter, 1).some /\ Nth(splitter, 2).some /\ Nth(splitter, 3).some)
    THEN Err(ErrorWith("Couldn't parse input", s))
    ELSE GameFromSegments(Split(splitter[1], ","), splitter[2],
                          Join(SubSeq(splitter, 3, Len(splitter)), <<"#">>))

GameFromSplit(s, splitter) ==
    IF ~(Nth(splitter, 1).some /\ Nth(splitter, 2).some /\ Nth(splitter, 3).some)
    THEN Err(ErrorWith("Couldn't parse input", s))
    ELSE GameFromSegments(Split(splitter[1], ","), splitter[2], splitter[3])

\* "3,100,2#F-12:6-100,E-9:12-90#123".parse::<Game>()
GameFromStr(s) == GameFromSplit(s, Split(s, "#"))

----------------------------------------------------------------------------
(* Encoding: impl fmt::Display for Direction, Action, Position, Board, Game *)

Directions == {"Up", "Down", "Left", "Right"}

Attack(d) == [tag |-> "Attack", dir |-> d]
Move(d) == [tag |-> "Move", dir |-> d]
Defend == [tag |-> "Defend"]
SelfDestruct == [tag |-> "SelfDestruct"]

\* Action::default()
ActionDefault == Defend

DirectionToString(d) ==
    CASE d = "Up" -> <<"U">>
      [] d = "Down" -> <<"D">>
      [] d = "Left" -> <<"L">>
      [] d = "Right" -> <<"R">>

ActionToString(a) ==
    CASE a.tag = "Attack" -> <<"A", "-">> \o DirectionToString(a.dir)
      [] a.tag = "Move" -> <<"M", "-">> \o DirectionToString(a.dir)
      [] a.tag = "Defend" -> <<"D">>
      [] a.tag = "SelfDestruct" -> <<"S">>

PositionToString(p) == UintToString(p.x) \o <<":">> \o UintToString(p.y)

\* the closure of Board's Display: format!("{}-{}", bot.position, action_str)
BotEntry(bot) ==
    LET action_str == IF bot.action.some
                      THEN ActionToString(bot.action.val)
                      ELSE ActionToString(ActionDefault)
    IN  PositionToString(bot.position) \o <<"-">> \o action_str

BoardToString_KeepsEnemies(board) ==
    Join([i \in 1..Len(board) |-> BotEntry(board[i])], <<",">>)

BoardToString(board) ==
    LET friendly == SelectSeq(board, LAMBDA bot : bot.team = "Friendly")
    IN  Join([i \in 1..Len(friendly) |-> BotEntry(friendly[i])], <<",">>)

GameToString_EchoesPlayer(g) ==
    BoardToString(g.board) \o <<"#">> \o g.user_data \o <<"#">>
        \o UintToString(g.player_num)

GameToString(g) == BoardToString(g.board) \o <<"#">> \o g.user_data

----------------------------------------------------------------------------
(* Bounds of the explored inputs *)

MaxPosLen == 4          \* characters in a Position token
MaxBotParts == 4        \* '-'-separated parts in a Bot token
MaxGameDataTokens == 4  \* ','-separated tokens in the game_data segment
MaxBots == 2            \* bot records in map_state, bots of an encoded Game
MaxBoardBots == 3       \* bots on an encoded Board
MaxSegments == 4        \* '#'-separated segments in an input line
MaxLines == 3           \* lines on standard input

\* all sequences over `alphabet` with lo..hi elements
SeqsOf(alphabet, lo, hi) == UNION {[1..n -> alphabet] : n \in lo..hi}

----------------------------------------------------------------------------
(* Inputs of the decoders *)

PosAlphabet == {"0", "1", ":", "-", "+", "x"}

\* every string over PosAlphabet of at most MaxPosLen characters
PositionTokens == SeqsOf(PosAlphabet, 0, MaxPosLen)

BotParts == {<<"F">>, <<"E">>, <<"1", ":", "2">>, <<"7">>, <<"2", "5", "6">>, <<>>}

\* every token made of 1..MaxBotParts parts of BotParts joined by '-'
BotTokens == {Join(parts, <<"-">>) : parts \in SeqsOf(BotParts, 1, MaxBotParts)}

NumTokens == {<<"3">>, <<"2", "5", "6">>, <<"x">>}

\* game_data segments: 0..MaxGameDataTokens number tokens joined by ','
GameDataTexts ==
    {Join(toks, <<",">>) : toks \in SeqsOf(NumTokens, 0, MaxGameDataTokens)}

GoodGameData == <<"3", ",", "1", "0", "0", ",", "2">>
BadGameData == <<"3", ",", "x">>

FriendlyRecord == <<"F", "-", "1", ":", "2", "-", "9">>
EnemyRecord == <<"E", "-", "0", ":", "7", "-", "0">>
PaddedRecord == <<"F", "-", "0", "7", ":", "1", "0", "-", "2", "5", "5">>
ShortRecord == <<"F", "-", "1", ":", "2">>
LooseRecord == <<"F", "-", "+", "3", ":", "4", ":", "x", "-", "5", "-", "x">>

RecordTokens ==
    {FriendlyRecord, EnemyRecord, PaddedRecord, ShortRecord, LooseRecord}

\* map_state segments: 0..MaxBots bot records joined by ','
MapStateTexts ==
    {Join(toks, <<",">>) : toks \in SeqsOf(RecordTokens, 0, MaxBots)}

UserDataTexts == {<<>>, <<"4", ",", "2", "-", ":">>}
ExtraTexts == {<<>>, <<"e">>}

\* lines whose game_data varies over all of GameDataTexts
GameDataLines ==
    {Join(<<gd, ms, <<"4", "2">>>>, <<"#">>) :
        gd \in GameDataTexts, ms \in {FriendlyRecord, ShortRecord}}

\* lines of 1..MaxSegments segments whose map_state and user_data vary
SegmentLines ==
    UNION {{Join(SubSeq(<<gd, ms, ud>> \o ex, 1, n), <<"#">>) :
                gd \in {GoodGameData, BadGameData}, ms \in MapStateTexts,
                ud \in UserDataTexts,
                ex \in SeqsOf(ExtraTexts, MaxSegments - 3, MaxSegments - 3)} :
           n \in 1..MaxSegments}

GameLines == GameDataLines \cup SegmentLines

----------------------------------------------------------------------------
(* Inputs of the encoders *)

Actions ==
    {Attack(d) : d \in Directions} \cup {Move(d) : d \in Directions}
        \cup {Defend, SelfDestruct}

OptionalActions == {None} \cup {Some(a) : a \in Actions}

Teams == {"Friendly", "Enemy"}

\* friendly bots: one with every optional action, one more elsewhere
FriendlyBotValues ==
    {[team |-> "Friendly", position |-> [x |-> 12, y |-> 6], health |-> 100,
      action |-> a] : a \in OptionalActions}
    \cup
    {[team |-> "Friendly", position |-> [x |-> 9, y |-> 12], health |-> 0,
      action |-> a] : a \in {None, Some(Move("Left"))}}

EnemyBotValues ==
    {[team |-> "Enemy", position |-> [x |-> 10, y |-> 12], health |-> 90,
      action |-> a] : a \in {None, Some(Attack("Up"))}}

BotValues == FriendlyBotValues \cup EnemyBotValues

BoardValues == SeqsOf(BotValues, 0, MaxBoardBots)

GameBotValues ==
    {[team |-> t, position |-> [x |-> 10, y |-> 5], health |-> 90, action |-> a] :
        t \in Teams, a \in {None, Some(Attack("Up")), Some(SelfDestruct)}}

GameValues ==
    {[board |-> b, user_data |-> u, turn |-> t, player_num |-> p] :
        b \in SeqsOf(GameBotValues, 0, MaxBots), u \in UserDataTexts,
        t \in {<<3, 100>>, <<0, 0>>}, p \in {1, 2}}

----------------------------------------------------------------------------
(* The codec functions, each applied to one input *)

CodecIdle ==
    /\ fn = "none" /\ arg = <<>> /\ ret = None /\ out = <<>> /\ phase = "idle"

MainIdle ==
    /\ lines = <<>> /\ consumed = 0 /\ stdout = <<>> /\ game = None
    /\ pc = "idle" /\ result = None

InitDecode ==
    /\ \/ fn = "Position::from_str" /\ arg \in PositionTokens
       \/ fn = "Bot::from_str" /\ arg \in BotTokens
       \/ fn = "Game::from_str" /\ arg \in GameLines
    /\ ret = None
    /\ out = <<>>
    /\ phase = "start"
    /\ MainIdle

CallPositionFromStr ==
    /\ phase = "start" /\ fn = "Position::from_str"
    /\ ret' = PositionFromStr(arg)
    /\ phase' = "parsed"
    /\ UNCHANGED <<fn, arg, out, mainVars>>

\* pos.to_string() on the Position just decoded
ShowDecodedPosition ==
    /\ phase = "parsed" /\ fn = "Position::from_str" /\ ret.ok
    /\ out' = PositionToString(ret.val)
    /\ phase' = "shown"
    /\ UNCHANGED <<fn, arg, ret, mainVars>>

CallBotFromStr ==
    /\ phase = "start" /\ fn = "Bot::from_str"
    /\ ret' = BotFromStr(arg)
    /\ phase' = "parsed"
    /\ UNCHANGED <<fn, arg, out, mainVars>>

CallGameFromStr ==
    /\ phase = "start" /\ fn = "Game::from_str"
    /\ ret' = GameFromStr(arg)
    /\ phase' = "parsed"
    /\ UNCHANGED <<fn, arg, out, mainVars>>

\* game.to_string() on the Game just decoded, no action assigned
ShowDecodedGame ==
    /\ phase = "parsed" /\ fn = "Game::from_str" /\ ret.ok
    /\ out' = GameToString(ret.val)
    /\ phase' = "shown"
    /\ UNCHANGED <<fn, arg, ret, mainVars>>

NextDecode ==
    \/ CallPositionFromStr
    \/ ShowDecodedPosition
    \/ CallBotFromStr
    \/ CallGameFromStr
    \/ ShowDecodedGame

SpecDecode == InitDecode /\ [][NextDecode]_vars

InitEncode ==
    /\ \/ fn = "Board::fmt" /\ arg \in BoardValues
       \/ fn = "Game::fmt" /\ arg \in GameValues
    /\ ret = None
    /\ out = <<>>
    /\ phase = "start"
    /\ MainIdle

\* board.to_string()
ShowBoard ==
    /\ phase = "start" /\ fn = "Board::fmt"
    /\ out' = BoardToString(arg)
    /\ phase' = "shown"
    /\ UNCHANGED <<fn, arg, ret, mainVars>>

\* game.to_string()
ShowGame ==
    /\ phase = "start" /\ fn = "Game::fmt"
    /\ out' = GameToString(arg)
    /\ phase' = "shown"
    /\ UNCHANGED <<fn, arg, ret, mainVars>>

NextEncode == ShowBoard \/ ShowGame

SpecEncode == InitEncode /\ [][NextEncode]_vars

----------------------------------------------------------------------------
(* main: the driving loop *)

GoodLine1 == Join(<<GoodGameData, Join(<<FriendlyRecord, EnemyRecord>>, <<",">>), <<"4", "2">>>>, <<"#">>)
GoodLine2 == Join(<<GoodGameData, EnemyRecord, <<>>>>, <<"#">>)
BadLine1 == Join(<<<<"3", ",", "1">>, FriendlyRecord, <<"4", "2">>>>, <<"#">>)
BadLine2 == Join(<<GoodGameData, ShortRecord, <<"4", "2">>>>, <<"#">>)
BadLine3 == GoodGameData

\* what stdin.lock().lines() can yield: Ok(line), or an io::Error
StdinItems ==
    {Ok(l) : l \in {GoodLine1, GoodLine2, BadLine1, BadLine2, BadLine3}}
        \cup {Err(Error("io::Error"))}

\* the line println! writes
FixedReply ==
    <<"5", ":", "5", "-", "D", ",", "1", "2", ":", "1", "2", "-", "D">>

Init ==
    /\ lines \in SeqsOf(StdinItems, 0, MaxLines)
    /\ consumed = 0
    /\ stdout = <<>>
    /\ game = None
    /\ pc = "loop"
    /\ result = None
    /\ CodecIdle

\* let line = line?; let game: Game = line.parse()?;
\* the Game, or the error main returns
ReadAndParse(item) == IF item.ok THEN GameFromStr(item.val) ELSE item

\* one iteration of `for line in stdin.lock().lines()`: `line?` returns the
\* read error, `line.parse()?` returns the decode error, otherwise the Game
\* is bound to `game` and dropped at the end of the iteration
MainNextLine_SkipsBadLine ==
    /\ pc = "loop" /\ consumed < Len(lines)
    /\ consumed' = consumed + 1
    /\ game' = IF ReadAndParse(lines[consumed + 1]).ok
               THEN Some(ReadAndParse(lines[consumed + 1]).val)
               ELSE game
    /\ UNCHANGED <<lines, stdout, pc, result, codecVars>>

MainNextLine ==
    /\ pc = "loop" /\ consumed < Len(lines)
    /\ consumed' = consumed + 1
    /\ LET outcome == ReadAndParse(lines[consumed + 1])
       IN  /\ pc' = IF outcome.ok THEN "loop" ELSE "failed"
           /\ result' = IF outcome.ok THEN result ELSE outcome
           /\ game' = IF outcome.ok THEN Some(outcome.val) ELSE game
    /\ UNCHANGED <<lines, stdout, codecVars>>

\* the iterator is exhausted: println!("5:5-D,12:12-D"); Ok(())
MainFinish ==
    /\ pc = "loop" /\ consumed = Len(lines)
    /\ stdout' = Append(stdout, FixedReply)
    /\ pc' = "done"
    /\ result' = Ok("()")
    /\ UNCHANGED <<lines, consumed, game, codecVars>>

Next == MainNextLine \/ MainFinish

Spec == Init /\ [][Next]_vars

----------------------------------------------------------------------------
(* Vocabulary of the properties *)

\* txt is the decimal numeral of n: digits only, no sign, no leading zero
IsNumeral(txt, n) ==
    /\ txt # <<>>
    /\ \A i \in 1..Len(txt) : IsDigit(txt[i])
    /\ Len(txt) > 1 => txt[1] # "0"
    /\ DigitsValue(txt) = n

\* the wire code of an optional action, Defend when it is unset
ActionCode(a) ==
    IF ~a.some THEN <<"D">>
    ELSE CASE a.val = Attack("Up") -> <<"A", "-", "U">>
           [] a.val = Attack("Down") -> <<"A", "-", "D">>
           [] a.val = Attack("Left") -> <<"A", "-", "L">>
           [] a.val = Attack("Right") -> <<"A", "-", "R">>
           [] a.val = Move("Up") -> <<"M", "-", "U">>
           [] a.val = Move("Down") -> <<"M", "-", "D">>
           [] a.val = Move("Left") -> <<"M", "-", "L">>
           [] a.val = Move("Right") -> <<"M", "-", "R">>
           [] a.val = Defend -> <<"D">>
           [] a.val = SelfDestruct -> <<"S">>

\* e is "<x>:<y>-<code>"
IsEntry(e, x, y, code) ==
    \E i \in 1..Len(e) : \E j \in (i + 1)..Len(e) :
        /\ e[i] = ":" /\ e[j] = "-"
        /\ IsNumeral(SubSeq(e, 1, i - 1), x)
        /\ IsNumeral(SubSeq(e, i + 1, j - 1), y)
        /\ SubSeq(e, j + 1, Len(e)) = code

\* text is the comma-joined list of one entry per element of `wanted`, a
\* sequence of <<x, y, code>>, in order; the empty string when it is empty
IsEntryList(text, wanted) ==
    IF wanted = <<>> THEN text = <<>>
    ELSE LET entries == Split(text, ",")
         IN  /\ Len(entries) = Len(wanted)
             /\ \A k \in 1..Len(wanted) :
                    IsEntry(entries[k], wanted[k][1], wanted[k][2], wanted[k][3])

\* the elements of seq that satisfy Keep, in order (by index arithmetic)
Kept(seq, Keep(_)) ==
    LET idx == {i \in 1..Len(seq) : Keep(seq[i])}
    IN  [k \in 1..Cardinality(idx) |->
            seq[CHOOSE i \in idx : Cardinality({j \in idx : j <= i}) = k]]

\* the positions of c in s
Places(s, c) == {i \in 1..Len(s) : s[i] = c}

\* the k-th of them, Len(s) + 1 when there are fewer
Place(s, c, k) ==
    IF Cardinality(Places(s, c)) < k THEN Len(s) + 1
    ELSE CHOOSE i \in Places(s, c) : Cardinality({j \in Places(s, c) : j <= i}) = k

\* the k-th c-delimited segment of s (k >= 1, at most one more than Places)
Segment(s, c, k) ==
    SubSeq(s, (IF k = 1 THEN 0 ELSE Place(s, c, k - 1)) + 1, Place(s, c, k) - 1)

----------------------------------------------------------------------------
(* Properties of encoding, under SpecEncode *)

BoardShown == phase = "shown" /\ fn = "Board::fmt"
GameShown == phase = "shown" /\ fn = "Game::fmt"

\* C1: Board encode returns the comma-joined list of exactly one entry
\* "<x>:<y>-<action>" per Friendly bot, in the board's order, the action
\* being A-<dir>, M-<dir>, D or S and D when unset; Enemy bots contribute
\* nothing and a board without Friendly bots encodes to the empty string.
C1_BoardEncode ==
    BoardShown =>
        LET friendly == Kept(arg, LAMBDA bot : bot.team = "Friendly")
        IN  IsEntryList(out, [k \in 1..Len(friendly) |->
                <<friendly[k].position.x, friendly[k].position.y,
                  ActionCode(friendly[k].action)>>])

\* the board of test_display_board has been encoded
C1_Witness ==
    /\ BoardShown
    /\ Len(arg) = 3
    /\ arg[1].team = "Friendly" /\ arg[1].action = Some(Attack("Up"))
    /\ arg[2].team = "Enemy"
    /\ arg[3].team = "Friendly" /\ arg[3].action = None
    /\ arg[1].position # arg[3].position
    /\ out = <<"1", "2", ":", "6", "-", "A", "-", "U", ",",
               "9", ":", "1", "2", "-", "D">>

\* C2: Game encode returns Board encode of the board, one "#", then
\* user_data unchanged; turn and player_num never influence the output.
C2_GameEncode ==
    GameShown =>
        LET b == BoardToString(arg.board)
        IN  /\ Len(out) = Len(b) + 1 + Len(arg.user_data)
            /\ SubSeq(out, 1, Len(b)) = b
            /\ out[Len(b) + 1] = "#"
            /\ SubSeq(out, Len(b) + 2, Len(out)) = arg.user_data
            /\ \A g \in GameValues :
                   (g.board = arg.board /\ g.user_data = arg.user_data)
                       => GameToString(g) = out

\* a Game with a friendly bot and a non-empty user_data has been encoded
C2_Witness ==
    /\ GameShown
    /\ \E i \in 1..Len(arg.board) : arg.board[i].team = "Friendly"
    /\ arg.user_data # <<>>
    /\ arg.turn = <<3, 100>> /\ arg.player_num = 2
    /\ Len(out) > Len(arg.user_data) + 1

----------------------------------------------------------------------------
(* Properties of decoding, under SpecDecode *)

PositionDecoded == fn = "Position::from_str" /\ phase \in {"parsed", "shown"}
BotDecoded == fn = "Bot::from_str" /\ phase \in {"parsed", "shown"}
GameDecoded == fn = "Game::from_str" /\ phase \in {"parsed", "shown"}

\* txt without one leading '+'
Unsigned(txt) == IF txt # <<>> /\ txt[1] = "+" THEN Tail(txt) ELSE txt

\* txt writes a non-negative integer of at most `max`: digits, which one '+'
\* may precede
IsUnsignedText(txt, max) ==
    /\ Unsigned(txt) # <<>>
    /\ \A i \in 1..Len(Unsigned(txt)) : IsDigit(Unsigned(txt)[i])
    /\ ~Exceeds(Unsigned(txt), max)

\* the number such a text writes
TextValue(txt) == DigitsValue(Unsigned(txt))

\* the number of c-delimited segments of s
SegmentCount(s, c) == Cardinality(Places(s, c)) + 1

\* all c-delimited segments of s, in order
Segments(s, c) == [k \in 1..SegmentCount(s, c) |-> Segment(s, c, k)]

\* C3: for every line Game decode accepts, Game encode of the freshly
\* decoded Game is one entry "<x>:<y>-D" per bot record whose team marker is
\* F, in the line's order and with the record's coordinates, comma-joined,
\* then "#", then the line's third #-segment verbatim; every decoded bot has
\* its action unset.
C3_DecodeThenEncode ==
    /\ (GameDecoded /\ ret.ok) =>
           /\ Len(ret.val.board) = SegmentCount(Segment(arg, "#", 2), ",")
           /\ \A i \in 1..Len(ret.val.board) : ret.val.board[i].action = None
    /\ (GameDecoded /\ phase = "shown") =>
           LET records == Segments(Segment(arg, "#", 2), ",")
               marked == Kept(records, LAMBDA r : Segment(r, "-", 1) = <<"F">>)
               at == Place(out, "#", 1)
           IN  /\ at <= Len(out)
               /\ IsEntryList(SubSeq(out, 1, at - 1),
                      [k \in 1..Len(marked) |->
                          <<TextValue(Segment(Segment(marked[k], "-", 2), ":", 1)),
                            TextValue(Segment(Segment(marked[k], "-", 2), ":", 2)),
                            <<"D">>>>])
               /\ SubSeq(out, at + 1, Len(out)) = Segment(arg, "#", 3)

\* the line "3,100,2#F-07:10-255,E-0:7-0#4,2-:" was decoded and re-encoded
C3_Witness ==
    /\ GameDecoded /\ phase = "shown"
    /\ Segment(arg, "#", 2) = Join(<<PaddedRecord, EnemyRecord>>, <<",">>)
    /\ Segment(arg, "#", 3) = <<"4", ",", "2", "-", ":">>
    /\ out = <<"7", ":", "1", "0", "-", "D", "#", "4", ",", "2", "-", ":">>

\* C4: Game decode uses only the first three #-segments: with fewer than
\* three it fails with the "Couldn't parse input" error carrying the line;
\* with more than three the result is that of decoding the line cut off just
\* before the third "#", and user_data is exactly the third segment.
C4_ThreeSegments ==
    GameDecoded =>
        /\ SegmentCount(arg, "#") < 3 =>
               ret = Err(ErrorWith("Couldn't parse input", arg))
        /\ SegmentCount(arg, "#") > 3 =>
               ret = GameFromStr(SubSeq(arg, 1, Place(arg, "#", 3) - 1))
        /\ (SegmentCount(arg, "#") >= 3 /\ ret.ok) =>
               ret.val.user_data = Segment(arg, "#", 3)

\* a line of four segments was accepted and the fourth, "e", discarded
C4_Witness ==
    /\ GameDecoded /\ phase = "parsed"
    /\ SegmentCount(arg, "#") = 4
    /\ Segment(arg, "#", 3) # <<>> /\ Segment(arg, "#", 4) = <<"e">>
    /\ ret.ok
    /\ ret.val.user_data = Segment(arg, "#", 3)

\* the message of the error raised when game_data has no k-th token
MissingField(k) ==
    CASE k = 1 -> "No numerator"
      [] k = 2 -> "No denominator"
      [] k = 3 -> "No player num"

\* the k-th game_data token is there and writes a number of its field's type
FieldValid(tokens, k) ==
    /\ k <= Len(tokens)
    /\ IsUnsignedText(tokens[k], IF k = 3 THEN U8MaxDigits ELSE U32MaxDigits)

\* C7: game_data is split on "," and read as current turn, total turns,
\* player number in that order; the first field that is missing fails the
\* decode with that field's error, the first that is present but not a
\* number of its type fails it with the number error; tokens after the
\* third are ignored.
C7_GameData ==
    (GameDecoded /\ SegmentCount(arg, "#") >= 3) =>
        LET tokens == Segments(Segment(arg, "#", 1), ",")
            bad == {k \in 1..3 : ~FieldValid(tokens, k)}
            first == CHOOSE k \in bad : \A j \in bad : k <= j
        IN  IF bad # {}
            THEN /\ ~ret.ok
                 /\ first > Len(tokens) => ret.err = Error(MissingField(first))
                 /\ first <= Len(tokens) => ret.err.kind = "ParseIntError"
            ELSE /\ ret.ok =>
                     /\ ret.val.turn = <<TextValue(tokens[1]), TextValue(tokens[2])>>
                     /\ ret.val.player_num = TextValue(tokens[3])
                 /\ ~ret.ok => ret = BoardFromStr(Segment(arg, "#", 2))

\* game_data "3,256" (no player number) failed with "No player num"
C7_Witness ==
    /\ GameDecoded
    /\ Segment(arg, "#", 1) = <<"3", ",", "2", "5", "6">>
    /\ ret = Err(Error("No player num"))

\* C5: Bot decode accepts a token only when splitting it on "-" gives
\* exactly three parts: every token with fewer or more than three parts
\* fails and produces no Bot.
C5_ExactlyThreeParts ==
    (BotDecoded /\ SegmentCount(arg, "-") # 3) => ~ret.ok

\* C6: Position decode splits the token once on ":" and requires two
\* non-negative integer parts: a token whose text before the first ":" or
\* whose whole text after it is not a non-negative integer (one that holds
\* a second ":" included) fails and yields no Position.
C6_TwoIntegerParts ==
    LET at == Place(arg, ":", 1)
        x == SubSeq(arg, 1, at - 1)
        rest == SubSeq(arg, at + 1, Len(arg))
    IN  (/\ PositionDecoded
         /\ ~(/\ at <= Len(arg)
              /\ IsUnsignedText(x, UsizeMaxDigits)
              /\ IsUnsignedText(rest, UsizeMaxDigits)))
            => ~ret.ok

\* arg is "x:y" with x and y written in digits only
IsDigitPair(s) ==
    /\ SegmentCount(s, ":") = 2
    /\ \A k \in 1..2 :
           /\ Segment(s, ":", k) # <<>>
           /\ \A i \in 1..Len(Segment(s, ":", k)) : IsDigit(Segment(s, ":", k)[i])

\* ... each without a leading zero (unless it is "0") and at most usize::MAX
IsCanonicalPair(s) ==
    /\ IsDigitPair(s)
    /\ \A k \in 1..2 :
           /\ Len(Segment(s, ":", k)) > 1 => Segment(s, ":", k)[1] # "0"
           /\ ~Exceeds(Segment(s, ":", k), UsizeMaxDigits)

\* C8 as stated: for every Position token "x:y" with non-negative integers
\* x and y, Position decode succeeds and Position encode of the decoded
\* value returns the original token unchanged.
C8_RoundTripAnyDigits ==
    (fn = "Position::from_str" /\ IsDigitPair(arg)) =>
        /\ phase \in {"parsed", "shown"} => ret.ok
        /\ phase = "shown" => out = arg

\* C8 amended: for every Position token "x:y" in which x and y are decimal
\* numerals without sign and without leading zeros, not above usize::MAX,
\* Position decode succeeds and Position encode of the decoded value returns
\* the original token unchanged.
C8_RoundTripCanonical ==
    (fn = "Position::from_str" /\ IsCanonicalPair(arg)) =>
        /\ phase \in {"parsed", "shown"} => ret.ok
        /\ phase = "shown" => out = arg

\* the token "10:1" was decoded and encoded back to "10:1"
C8_Witness ==
    /\ fn = "Position::from_str" /\ phase = "shown"
    /\ arg = <<"1", "0", ":", "1">>
    /\ ret = Ok([x |-> 10, y |-> 1])
    /\ out = arg

----------------------------------------------------------------------------
(* Properties of the driving loop, under Spec *)

\* the item main stops at: the read failed, or the line does not decode
Fails(item) == ~ReadAndParse(item).ok

Failing == {i \in 1..Len(lines) : Fails(lines[i])}

FirstFailing == CHOOSE i \in Failing : \A j \in Failing : i <= j

\* C9: the loop keeps a request/response cadence: one response per decoded
\* line, emitted before the next line is consumed, so while the loop runs
\* the number of responses always equals the number of lines consumed or is
\* one less.
C9_Cadence ==
    pc = "loop" => (Len(stdout) = consumed \/ Len(stdout) = consumed - 1)

\* C10: if some line fails Game decode the run stops at the first such line
\* with an error result, no later line is consumed and no output line is
\* ever written; an output line is written only after every input line has
\* been consumed and has decoded, and then exactly one line is written.
C10_FailFastSingleReply ==
    /\ Failing # {} =>
           /\ consumed <= FirstFailing
           /\ stdout = <<>>
           /\ pc # "done"
           /\ pc = "failed" <=> consumed = FirstFailing
           /\ pc = "failed" => result = ReadAndParse(lines[FirstFailing])
    /\ Failing = {} => pc # "failed"
    /\ stdout # <<>> =>
           /\ Failing = {}
           /\ consumed = Len(lines)
           /\ pc = "done" /\ result.ok
           /\ stdout = <<FixedReply>>
    /\ pc = "done" => stdout = <<FixedReply>>

\* the run stopped at a line that does not decode, after a good line and
\* before a line it never consumed
C10_Witness ==
    /\ pc = "failed"
    /\ consumed = 2 /\ Len(lines) = 3
    /\ lines[1].ok /\ lines[2].ok /\ ~Fails(lines[1])
    /\ stdout = <<>>
    /\ ~result.ok

====
